---- MODULE Spec2Model ----
(***************************************************************************)
(* Campaign dispatch engine of the bulk sender (src/server.js).            *)
(*                                                                         *)
(* The server is one Node.js event loop.  Every callback runs to its next  *)
(* await (or to its end) without interruption, and callbacks of different  *)
(* requests, cron ticks and dispatch passes interleave freely between      *)
(* awaits.  One action of this module is one such callback: the store      *)
(* statement that triggers it together with the synchronous code that      *)
(* follows, up to the next suspension point.  Statements issued with       *)
(* db.run and no callback take effect in issue order.                      *)
(***************************************************************************)
EXTENDS Integers, Sequences, FiniteSets, TLC

\* ------------------------------------------------------------------ bounds
MaxContacts  == 2    \* contact rows that exist initially, ids 1..MaxContacts
MaxIds       == 2    \* longest contact id list a creation request carries
MaxCampaigns == 2    \* campaigns that are ever created
MaxMsgs      == 2    \* messages of one campaign in a populated store
MaxPasses    == 2    \* invocations of sendBulkMessages active at the same time
MaxTicks     == 2    \* cron ticks in one behaviour
MaxTime      == 1    \* clock values 0..MaxTime
MaxTemplate  == 2    \* longest message template, in tokens

VARIABLES
    contacts,        \* table contacts: the set of ids that have a row
    campaigns,       \* table campaigns: id -> [status, scheduled_at]
    messages,        \* table messages: id -> [campaign_id, contact_id, phone,
                     \*                         message, status, error]
    lastCampaignId,  \* AUTOINCREMENT counter of campaigns
    lastMessageId,   \* AUTOINCREMENT counter of messages
    isClientReady,   \* the channel flag
    now,             \* datetime('now')
    creations,       \* POST /api/campaigns requests in progress or finished
    passes,          \* active invocations of sendBulkMessages: pass id -> its frame
    ticks,           \* suspended cron callbacks: tick id -> campaigns left, pass awaited
    lastTickId,      \* number of cron ticks so far
    resolved,        \* what the sendBulkMessages promise resolved in this step returns
    emitted,         \* the message_sent event that io.emit publishes in this step
    attempted,       \* the messages that were handed to the channel at least once
    handed,          \* campaign id -> dispatcher invocations by callers that found
                     \* it in status scheduled: by a manual start, by the scheduler
    deletions        \* DELETE /api/campaigns/:id requests whose messages are
                     \* deleted and whose campaign row is not yet: campaign ids

vars == <<contacts, campaigns, messages, lastCampaignId, lastMessageId,
          isClientReady, now, creations, passes, ticks, lastTickId,
          resolved, emitted, attempted, handed, deletions>>

storeVars == <<contacts, campaigns, messages, lastCampaignId, lastMessageId>>

\* ------------------------------------------------------------- constants
NULL == 0                                  \* SQL NULL for scheduled_at
NotReadyError == "WhatsApp client not ready"
SendError == "send failed"                 \* any error text the channel reports
LookupError == "Cannot read properties of undefined"   \* error.message of the TypeError
NoError == "none"                          \* column error is NULL

ContactIds == 1..MaxContacts

\* All sequences over S of length 0..n.
SeqsUpTo(S, n) == UNION {[1..k -> S] : k \in 0..n}

\* The ids in S up to hi, as a sequence in ascending order.
RECURSIVE IdsInOrder(_, _)
IdsInOrder(S, hi) ==
    IF hi = 0 THEN <<>>
    ELSE IF hi \in S THEN Append(IdsInOrder(S, hi - 1), hi)
    ELSE IdsInOrder(S, hi - 1)

SeqRange(s) == {s[k] : k \in 1..Len(s)}

\* ----------------------------------------------------------------- texts
\* A text is a sequence of tokens: a token is a placeholder, the replacement
\* pattern $& of String.prototype.replace, or a piece of plain text.
Fields == {"name", "phone", "email"}
Placeholder(f) == "{" \o f \o "}"
Placeholders == {Placeholder(f) : f \in Fields}
MatchedText == "$&"
NullText == <<"null">>                      \* String(null)

\* The message templates a creation request carries.
Templates == SeqsUpTo({"Hi"} \cup Placeholders, MaxTemplate)

\* The texts a populated contact field holds: plain text, placeholder text,
\* or the replacement pattern.
FieldTexts == {<<t>> : t \in {"Ana", MatchedText} \cup Placeholders}

\* The rows of table contacts, without the id: a field is absent (NULL, and
\* then written <<>> here) or holds a text.
Rows == {r \in [name : FieldTexts \cup {<<>>}, phone : FieldTexts \cup {<<>>},
                email : FieldTexts \cup {<<>>}, absent : SUBSET Fields] :
            r.absent = {f \in Fields : r[f] = <<>>}}

\* A contact with plain text in every field.
PlainRow == [name |-> <<"Ana">>, phone |-> <<"Ana">>, email |-> <<"Ana">>,
             absent |-> {}]

\* The phone of contact id in a populated store.
PhoneOf(id) == <<"+155" \o ToString(id)>>

\* The replacement string that replace() makes of a field: null becomes the
\* text "null".
FieldText(row, f) == IF f \in row.absent THEN NullText ELSE row[f]

\* What one match of the placeholder ph is replaced with: the replacement
\* string, in which $& stands for the matched text.
RECURSIVE Expand(_, _)
Expand(val, ph) ==
    IF val = <<>> THEN <<>>
    ELSE (IF Head(val) = MatchedText THEN <<ph>> ELSE <<Head(val)>>)
         \o Expand(Tail(val), ph)

\* text.replace(/\{f\}/g, val): every match in text, left to right; what was
\* put in is not scanned again by the same call.
RECURSIVE ReplaceAll(_, _, _)
ReplaceAll(text, ph, val) ==
    IF text = <<>> THEN <<>>
    ELSE (IF Head(text) = ph THEN Expand(val, ph) ELSE <<Head(text)>>)
         \o ReplaceAll(Tail(text), ph, val)

\* message.replace(name).replace(phone).replace(email): three calls, each on
\* the result of the one before.
Personalize(message, row) ==
    ReplaceAll(
       ReplaceAll(
          ReplaceAll(message, Placeholder("name"), FieldText(row, "name")),
          Placeholder("phone"), FieldText(row, "phone")),
       Placeholder("email"), FieldText(row, "email"))

\* ------------------------------------------------------------ the store
\* Rows of table messages that belong to campaign c.
MessagesOf(ms, c) == {m \in DOMAIN ms : ms[m].campaign_id = c}

\* Faulty variant of PendingMessages: an inner join, which drops the messages
\* whose contact row is gone.
PendingMessagesJoined(ms, c) ==
    IdsInOrder({m \in DOMAIN ms : /\ ms[m].campaign_id = c
                                   /\ ms[m].status = "pending"
                                   /\ ms[m].contact_id \in contacts},
               lastMessageId)

\* SELECT m.*, c.name FROM messages m LEFT JOIN contacts c ON m.contact_id = c.id
\*   WHERE m.campaign_id = ? AND m.status = 'pending'
\* A left join: a message is returned whether its contact row exists or not.
PendingMessages(ms, c) ==
    IdsInOrder({m \in DOMAIN ms : ms[m].campaign_id = c /\ ms[m].status = "pending"},
               lastMessageId)

\* Faulty variant of MarkSent: the update is lost.
MarkSentLost(ms, m) == ms

\* UPDATE messages SET status = 'sent', sent_at = CURRENT_TIMESTAMP WHERE id = ?
MarkSent(ms, m) ==
    IF m \in DOMAIN ms THEN [ms EXCEPT ![m].status = "sent"] ELSE ms

\* Faulty variant of MarkFailed: the row is deleted instead of updated.
MarkFailedDeletes(ms, m, err) == [j \in DOMAIN ms \ {m} |-> ms[j]]

\* UPDATE messages SET status = 'failed', error = ? WHERE id = ?
MarkFailed(ms, m, err) ==
    IF m \in DOMAIN ms
    THEN [ms EXCEPT ![m].status = "failed", ![m].error = err]
    ELSE ms

\* DELETE FROM messages WHERE campaign_id = ?
DeleteMessagesOf(ms, c) == [m \in DOMAIN ms \ MessagesOf(ms, c) |-> ms[m]]

\* UPDATE campaigns SET status = ? WHERE id = ?   (no condition on the old status)
SetStatus(cs, c, st) ==
    IF c \in DOMAIN cs THEN [cs EXCEPT ![c].status = st] ELSE cs

\* SELECT * FROM campaigns WHERE status = 'scheduled'
\*   AND datetime(scheduled_at) <= datetime('now')
DueCampaigns(cs, t) ==
    IdsInOrder({c \in DOMAIN cs : cs[c].status = "scheduled"
                                  /\ cs[c].scheduled_at # NULL
                                  /\ cs[c].scheduled_at <= t},
               lastCampaignId)

\* SELECT * FROM contacts WHERE id IN (ids): each existing contact once.
ContactRows(ids) == IdsInOrder(SeqRange(ids) \cap contacts, MaxContacts)

\* ------------------------------------------------------- dispatch passes
\* The frame of sendBulkMessages(c) when it has issued the query for the
\* pending messages.  run records what the pass has seen of the channel since
\* it was called: "ok" (ready all along, no send rejected), "down" (not ready
\* all along) or "mixed"; msgs are the ids and phones the phone columns of the
\* rows it fetched; downAt is the index of the message at which its
\* readiness check first failed, 0 when it has not.
NewPass(c) ==
    [campaign |-> c, pc |-> "fetch", msgs |-> <<>>, phones |-> <<>>, i |-> 1,
     sent |-> 0, failed |-> 0, issued |-> 0, downAt |-> 0,
     run |-> IF isClientReady THEN "ok" ELSE "down"]

\* resolve({ sent, failed, total: messages.length }), with the campaign and
\* the messages of the pass and what it saw of the channel; run is "rejected"
\* when the promise is rejected instead.
Result(p) ==
    [campaign |-> p.campaign, msgs |-> p.msgs, sent |-> p.sent,
     failed |-> p.failed, total |-> Len(p.msgs), issued |-> p.issued,
     downAt |-> p.downAt, run |-> p.run]

\* io.emit('message_sent', { campaignId, messageId, phone, sent, total }) of
\* pass p for the message in hand, after sent++.
Event(p) ==
    [campaignId |-> p.campaign, messageId |-> p.msgs[p.i], phone |-> p.phones[p.i],
     sent |-> p.sent, total |-> Len(p.msgs)]

\* No event is published in this step.
NoEvent == [campaignId |-> 0, messageId |-> 0, phone |-> <<>>, sent |-> 0, total |-> 0]

\* No promise of sendBulkMessages is resolved in this step.
NoResult == [campaign |-> 0, msgs |-> <<>>, sent |-> 0, failed |-> 0, total |-> 0,
             issued |-> 0, downAt |-> 0, run |-> "none"]

\* Faulty variant of RunLoop: a channel that is not ready ends the loop (break) after
\* the message in hand is marked failed.
RunLoopBreaks(cs, ms, p, ready) ==
    IF p.i > Len(p.msgs) \/ ~ready
    THEN [campaigns |-> SetStatus(cs, p.campaign, "completed"),
          messages  |-> IF p.i > Len(p.msgs) THEN ms
                        ELSE MarkFailed(ms, p.msgs[p.i], NotReadyError),
          pass      |-> IF p.i > Len(p.msgs) THEN [p EXCEPT !.pc = "done"]
                        ELSE [p EXCEPT !.pc = "done", !.failed = @ + 1,
                                       !.downAt = IF @ = 0 THEN p.i ELSE @]]
    ELSE [campaigns |-> cs, messages |-> ms,
          pass |-> [p EXCEPT !.pc = "lookup"]]

\* Faulty variant of RunLoop: the catch block sleeps after a failed readiness
\* check, so the pass is suspended before it looks at the next message.
RunLoopSleeps(cs, ms, p, ready) ==
    IF p.i > Len(p.msgs)
    THEN [campaigns |-> SetStatus(cs, p.campaign, "completed"),
          messages  |-> ms,
          pass      |-> [p EXCEPT !.pc = "done"]]
    ELSE IF ~ready
    THEN [campaigns |-> cs,
          messages  |-> MarkFailed(ms, p.msgs[p.i], NotReadyError),
          pass      |-> [p EXCEPT !.pc = "delay", !.failed = @ + 1,
                                  !.downAt = IF @ = 0 THEN p.i ELSE @]]
    ELSE [campaigns |-> cs, messages |-> ms,
          pass |-> [p EXCEPT !.pc = "lookup"]]

\* The synchronous part of the for loop of sendBulkMessages, entered at the
\* top of an iteration with message index p.i: a message met while the
\* channel is not ready is marked failed in the catch block and the loop
\* goes on at once; a message met while it is ready suspends the pass at the
\* campaign lookup; after the last message the campaign is marked completed
\* and the promise resolves.  The result is the store and the pass after it.
RECURSIVE RunLoop(_, _, _, _)
RunLoop(cs, ms, p, ready) ==
    IF p.i > Len(p.msgs)
    THEN [campaigns |-> SetStatus(cs, p.campaign, "completed"),
          messages  |-> ms,
          pass      |-> [p EXCEPT !.pc = "done"]]
    ELSE IF ~ready
    THEN RunLoop(cs, MarkFailed(ms, p.msgs[p.i], NotReadyError),
                 [p EXCEPT !.i = @ + 1, !.failed = @ + 1,
                           !.downAt = IF @ = 0 THEN p.i ELSE @], ready)
    ELSE [campaigns |-> cs, messages |-> ms,
          pass |-> [p EXCEPT !.pc = "lookup"]]

\* Table f without row k.
Without(f, k) == [j \in DOMAIN f \ {k} |-> f[j]]

\* Every active pass has now seen a rejected send or a channel that is not
\* ready (NoteFailure), or a channel that is ready (NoteReady).
NoteFailure(ps) == [k \in DOMAIN ps |->
                      IF ps[k].run = "ok" THEN [ps[k] EXCEPT !.run = "mixed"] ELSE ps[k]]
NoteReady(ps)   == [k \in DOMAIN ps |->
                      IF ps[k].run = "down" THEN [ps[k] EXCEPT !.run = "mixed"] ELSE ps[k]]

\* Pass ids name the promises of sendBulkMessages: a new call gets the least
\* id that no active pass has.
PassIds == 1..MaxPasses
FreshPassId == CHOOSE k \in PassIds \ DOMAIN passes :
                  \A j \in PassIds \ DOMAIN passes : k <= j

\* As many passes are active as the model follows at a time.
PassesFull == Cardinality(DOMAIN passes) >= MaxPasses

\* One more dispatcher invocation for campaign c by a caller of kind who
\* ("manual" or "sched") that found it in status scheduled.
NoteHanded(h, c, who) ==
    IF c \in DOMAIN h
    THEN [h EXCEPT ![c][who] = IF @ < 2 THEN @ + 1 ELSE @]
    ELSE h

\* ------------------------------------------------------------- channel
\* client.on('ready')
ClientReady ==
    /\ isClientReady' = TRUE
    /\ passes' = NoteReady(passes)
    /\ resolved' = NoResult
    /\ emitted' = NoEvent
    /\ UNCHANGED deletions
    /\ UNCHANGED <<storeVars, now, creations, ticks, lastTickId,
                   attempted, handed>>

\* client.on('disconnected'), POST /api/logout
ClientDisconnected ==
    /\ isClientReady' = FALSE
    /\ passes' = NoteFailure(passes)
    /\ resolved' = NoResult
    /\ emitted' = NoEvent
    /\ UNCHANGED deletions
    /\ UNCHANGED <<storeVars, now, creations, ticks, lastTickId,
                   attempted, handed>>

\* The wall clock read by datetime('now').
AdvanceTime ==
    /\ now < MaxTime
    /\ now' = now + 1
    /\ resolved' = NoResult
    /\ emitted' = NoEvent
    /\ UNCHANGED deletions
    /\ UNCHANGED <<storeVars, isClientReady, creations, passes, ticks,
                   lastTickId, attempted, handed>>

\* ------------------------------------------------------------ contacts
\* DELETE /api/contacts/:id
DeleteContact(k) ==
    /\ k \in contacts
    /\ contacts' = contacts \ {k}
    /\ resolved' = NoResult
    /\ emitted' = NoEvent
    /\ UNCHANGED deletions
    /\ UNCHANGED <<campaigns, messages, lastCampaignId, lastMessageId,
                   isClientReady, now, creations, passes, ticks,
                   lastTickId, attempted, handed>>

\* ------------------------------------------------- POST /api/campaigns
\* The campaign row is inserted; its callback has not run yet.  The request
\* carries the contact ids, the schedule and the message template.
CreateCampaign(ids, sched, message) ==
    /\ lastCampaignId < MaxCampaigns
    /\ lastCampaignId' = lastCampaignId + 1
    /\ campaigns' = campaigns @@
          (lastCampaignId + 1 :>
              [status |-> IF sched # NULL THEN "scheduled" ELSE "draft",
               scheduled_at |-> sched])
    /\ handed' = handed @@ (lastCampaignId + 1 :> [manual |-> 0, sched |-> 0])
    /\ creations' = Append(creations,
          [campaign |-> lastCampaignId + 1, ids |-> ids, message |-> message,
           pc |-> "lookup", rows |-> <<>>, queue |-> <<>>, err |-> FALSE])
    /\ resolved' = NoResult
    /\ emitted' = NoEvent
    /\ UNCHANGED deletions
    /\ UNCHANGED <<contacts, messages, lastMessageId, isClientReady, now,
                   passes, ticks, lastTickId, attempted>>

\* Callback of the contact query, which returned the rows of the listed
\* contacts that exist, with the fields table[id]: each row's message is
\* personalized and one stmt.run is queued for it, the statement is finalized
\* and the request is answered with success.
CreateLookup(k, table) ==
    /\ k \in 1..Len(creations)
    /\ creations[k].pc = "lookup"
    /\ LET found == ContactRows(creations[k].ids)
           rows  == [j \in 1..Len(found) |-> [id |-> found[j]] @@ table[found[j]]]
       IN creations' = [creations EXCEPT
             ![k].rows = rows,
             ![k].queue = [j \in 1..Len(rows) |->
                             [contact_id |-> rows[j].id,
                              phone |-> rows[j].phone,
                              message |-> Personalize(creations[k].message, rows[j])]],
             ![k].pc = IF rows = <<>> THEN "done" ELSE "insert"]
    /\ resolved' = NoResult
    /\ emitted' = NoEvent
    /\ UNCHANGED deletions
    /\ UNCHANGED <<storeVars, isClientReady, now, passes, ticks,
                   lastTickId, attempted, handed>>

\* The contact query fails: the request is answered with status 500 and the
\* callback returns.
CreateLookupFails(k) ==
    /\ k \in 1..Len(creations)
    /\ creations[k].pc = "lookup"
    /\ creations' = [creations EXCEPT ![k].pc = "done", ![k].err = TRUE]
    /\ resolved' = NoResult
    /\ emitted' = NoEvent
    /\ UNCHANGED deletions
    /\ UNCHANGED <<storeVars, isClientReady, now, passes, ticks,
                   lastTickId, attempted, handed>>

\* One queued INSERT INTO messages ... 'pending' is executed.
CreateInsert(k) ==
    /\ k \in 1..Len(creations)
    /\ creations[k].pc = "insert"
    /\ LET cr == creations[k]
           id == lastMessageId + 1
       IN /\ lastMessageId' = id
          /\ messages' = messages @@
                (id :> [campaign_id |-> cr.campaign,
                        contact_id |-> Head(cr.queue).contact_id,
                        phone |-> Head(cr.queue).phone,
                        message |-> Head(cr.queue).message,
                        status |-> "pending", error |-> NoError])
          /\ UNCHANGED attempted
          /\ creations' = [creations EXCEPT
                ![k].queue = Tail(cr.queue),
                ![k].pc = IF Tail(cr.queue) = <<>> THEN "done" ELSE "insert"]
    /\ resolved' = NoResult
    /\ emitted' = NoEvent
    /\ UNCHANGED deletions
    /\ UNCHANGED <<contacts, campaigns, lastCampaignId, isClientReady, now,
                   passes, ticks, lastTickId, handed>>

\* One queued insert fails: stmt.run has no callback, so nothing is told to
\* the request, which was answered with success already; no row is written
\* and the inserts queued behind it go on.
CreateInsertFails(k) ==
    /\ k \in 1..Len(creations)
    /\ creations[k].pc = "insert"
    /\ creations' = [creations EXCEPT
          ![k].queue = Tail(creations[k].queue),
          ![k].err = TRUE,
          ![k].pc = IF Tail(creations[k].queue) = <<>> THEN "done" ELSE "insert"]
    /\ resolved' = NoResult
    /\ emitted' = NoEvent
    /\ UNCHANGED deletions
    /\ UNCHANGED <<storeVars, isClientReady, now, passes, ticks,
                   lastTickId, attempted, handed>>

\* ------------------------------------------ POST /api/campaigns/:id/start
\* The status is set to running whatever it was, success is answered, and
\* sendBulkMessages is called.
Start(c) ==
    /\ ~PassesFull
    /\ campaigns' = SetStatus(campaigns, c, "running")
    /\ passes' = (FreshPassId :> NewPass(c)) @@ passes
    /\ handed' = IF c \in DOMAIN campaigns /\ campaigns[c].status = "scheduled"
                 THEN NoteHanded(handed, c, "manual") ELSE handed
    /\ resolved' = NoResult
    /\ emitted' = NoEvent
    /\ UNCHANGED deletions
    /\ UNCHANGED <<contacts, messages, lastCampaignId, lastMessageId,
                   isClientReady, now, creations, ticks, lastTickId, attempted>>

\* ------------------------------------------ POST /api/campaigns/:id/pause
\* Faulty variant of Pause: the delay of a pass holds up the event loop, so
\* the request is not handled while a pass sleeps.
PauseBlocked(c) ==
    /\ \A k \in DOMAIN passes : passes[k].pc # "delay"
    /\ campaigns' = SetStatus(campaigns, c, "paused")
    /\ resolved' = NoResult
    /\ emitted' = NoEvent
    /\ UNCHANGED deletions
    /\ UNCHANGED <<contacts, messages, lastCampaignId, lastMessageId,
                   isClientReady, now, creations, passes, ticks,
                   lastTickId, attempted, handed>>

Pause(c) ==
    /\ campaigns' = SetStatus(campaigns, c, "paused")
    /\ resolved' = NoResult
    /\ emitted' = NoEvent
    /\ UNCHANGED deletions
    /\ UNCHANGED <<contacts, messages, lastCampaignId, lastMessageId,
                   isClientReady, now, creations, passes, ticks,
                   lastTickId, attempted, handed>>

\* ------------------------------------------------ DELETE /api/campaigns/:id
\* The messages of campaign c are deleted; the callback issues the deletion
\* of the campaign row.  The model follows one request per campaign at a time.
DeleteCampaign(c) ==
    /\ c \notin deletions
    /\ messages' = DeleteMessagesOf(messages, c)
    /\ deletions' = deletions \cup {c}
    /\ resolved' = NoResult
    /\ emitted' = NoEvent
    /\ UNCHANGED <<contacts, campaigns, lastCampaignId, lastMessageId,
                   isClientReady, now, creations, passes, ticks,
                   lastTickId, attempted, handed>>

\* The deletion of the messages fails: status 500 is answered and nothing
\* else is done.
DeleteCampaignFails(c) ==
    /\ c \notin deletions
    /\ resolved' = NoResult
    /\ emitted' = NoEvent
    /\ UNCHANGED <<storeVars, isClientReady, now, creations, passes, ticks,
                   lastTickId, attempted, handed, deletions>>

\* The campaign row is deleted and success is answered.
DeleteCampaignRow(c) ==
    /\ c \in deletions
    /\ campaigns' = Without(campaigns, c)
    /\ deletions' = deletions \ {c}
    /\ resolved' = NoResult
    /\ emitted' = NoEvent
    /\ UNCHANGED <<contacts, messages, lastCampaignId, lastMessageId,
                   isClientReady, now, creations, passes, ticks,
                   lastTickId, attempted, handed>>

\* The deletion of the campaign row fails: status 500 is answered; the
\* messages stay deleted.
DeleteCampaignRowFails(c) ==
    /\ c \in deletions
    /\ deletions' = deletions \ {c}
    /\ resolved' = NoResult
    /\ emitted' = NoEvent
    /\ UNCHANGED <<storeVars, isClientReady, now, creations, passes, ticks,
                   lastTickId, attempted, handed>>

\* ------------------------------------------------------------ scheduler
\* One iteration of the for loop of tick t over the campaigns it queried, of
\* which list is left: the head is set running and sendBulkMessages is called
\* for it, as pass k, and awaited.  The result is the state after it, given
\* the campaigns cs, the passes ps, the suspended ticks tk and handed hd.
WalkList(t, k, list, cs, ps, tk, hd) ==
    [campaigns |-> SetStatus(cs, Head(list), "running"),
     passes    |-> (k :> NewPass(Head(list))) @@ ps,
     handed    |-> NoteHanded(hd, Head(list), "sched"),
     ticks     |-> IF Tail(list) = <<>>
                   THEN Without(tk, t)
                   ELSE (t :> [list |-> Tail(list), wait |-> k]) @@ Without(tk, t)]

\* cron fires: the due campaigns are queried and the callback walks the list
\* up to its first await.
Tick ==
    /\ lastTickId < MaxTicks
    /\ lastTickId' = lastTickId + 1
    /\ LET list == DueCampaigns(campaigns, now)
       IN IF list = <<>>
          THEN UNCHANGED <<campaigns, passes, ticks, handed>>
          ELSE /\ ~PassesFull
               /\ LET w == WalkList(lastTickId + 1, FreshPassId, list,
                                    campaigns, passes, ticks, handed)
                  IN /\ campaigns' = w.campaigns
                     /\ passes' = w.passes
                     /\ ticks' = w.ticks
                     /\ handed' = w.handed
    /\ resolved' = NoResult
    /\ emitted' = NoEvent
    /\ UNCHANGED deletions
    /\ UNCHANGED <<contacts, messages, lastCampaignId, lastMessageId,
                   isClientReady, now, creations, attempted>>

\* ----------------------------------------------------- sendBulkMessages
\* Pass k, one of the passes ps, has run on to the frame and the store of r.
\* A pass that is not done stays suspended.  A pass that is done resolves its
\* promise, and the caller that awaits it goes on before any other callback
\* runs: a manual start logs the result, a tick goes on with the next
\* campaign of its list.
Continue(k, ps, r) ==
    /\ messages' = r.messages
    /\ emitted' = NoEvent
    /\ UNCHANGED deletions
    /\ IF r.pass.pc # "done"
       THEN /\ resolved' = NoResult
            /\ campaigns' = r.campaigns
            /\ passes' = [ps EXCEPT ![k] = r.pass]
            /\ UNCHANGED <<ticks, handed>>
       ELSE /\ resolved' = Result(r.pass)
            /\ IF \E t \in DOMAIN ticks : ticks[t].wait = k
               THEN LET t == CHOOSE t \in DOMAIN ticks : ticks[t].wait = k
                        w == WalkList(t, k, ticks[t].list, r.campaigns,
                                      Without(ps, k), ticks, handed)
                    IN /\ campaigns' = w.campaigns
                       /\ passes' = w.passes
                       /\ ticks' = w.ticks
                       /\ handed' = w.handed
               ELSE /\ campaigns' = r.campaigns
                    /\ passes' = Without(ps, k)
                    /\ UNCHANGED <<ticks, handed>>

\* Callback of the pending-message query: the list is fixed for the pass and
\* the loop starts.
Fetch(k) ==
    /\ k \in DOMAIN passes
    /\ passes[k].pc = "fetch"
    /\ LET list == PendingMessages(messages, passes[k].campaign)
           p == [passes[k] EXCEPT
                   !.msgs = list,
                   !.phones = [j \in 1..Len(list) |-> messages[list[j]].phone]]
       IN Continue(k, passes, RunLoop(campaigns, messages, p, isClientReady))
    /\ UNCHANGED <<contacts, lastCampaignId, lastMessageId, isClientReady, now,
                   creations, lastTickId, attempted>>

\* The pending-message query fails: the promise is rejected and nothing else
\* is done.  The caller catches and logs the error; a tick goes on with the
\* next campaign of its list.
FetchFails(k) ==
    /\ k \in DOMAIN passes
    /\ passes[k].pc = "fetch"
    /\ Continue(k, passes,
          [campaigns |-> campaigns, messages |-> messages,
           pass |-> [passes[k] EXCEPT !.pc = "done", !.run = "rejected"]])
    /\ UNCHANGED <<contacts, lastCampaignId, lastMessageId, isClientReady, now,
                   creations, lastTickId, attempted>>

\* The campaign row has been read; the message is handed to the channel
\* (MessageMedia.fromUrl and client.sendMessage with a media url,
\* client.sendMessage alone without).
Lookup(k) ==
    /\ k \in DOMAIN passes
    /\ passes[k].pc = "lookup"
    /\ passes[k].campaign \in DOMAIN campaigns
    /\ LET m == passes[k].msgs[passes[k].i]
       IN /\ passes' = [passes EXCEPT ![k].pc = "sending", ![k].issued = @ + 1]
          /\ attempted' = attempted \cup {m}
    /\ resolved' = NoResult
    /\ emitted' = NoEvent
    /\ UNCHANGED deletions
    /\ UNCHANGED <<storeVars, isClientReady, now, creations, ticks,
                   lastTickId, handed>>

\* The campaign lookup found no row: campaign is undefined, reading
\* campaign.media_url throws, and the catch block marks the message failed
\* (an update of a row that may be gone as well) and goes on with the next
\* message without sleeping.  Nothing is handed to the channel.
LookupMissing(k) ==
    /\ k \in DOMAIN passes
    /\ passes[k].pc = "lookup"
    /\ passes[k].campaign \notin DOMAIN campaigns
    /\ Continue(k, passes,
          RunLoop(campaigns,
                  MarkFailed(messages, passes[k].msgs[passes[k].i], LookupError),
                  [passes[k] EXCEPT !.i = @ + 1, !.failed = @ + 1],
                  isClientReady))
    /\ UNCHANGED <<contacts, lastCampaignId, lastMessageId, isClientReady, now,
                   creations, lastTickId, attempted>>

\* Faulty variant of SendOk: no progress event is published.
SendOkSilent(k) ==
    /\ k \in DOMAIN passes
    /\ passes[k].pc = "sending"
    /\ messages' = MarkSent(messages, passes[k].msgs[passes[k].i])
    /\ passes' = [passes EXCEPT ![k].pc = "delay", ![k].sent = @ + 1]
    /\ emitted' = NoEvent
    /\ UNCHANGED deletions
    /\ resolved' = NoResult
    /\ UNCHANGED <<contacts, campaigns, lastCampaignId, lastMessageId,
                   isClientReady, now, creations, ticks, lastTickId,
                   attempted, handed>>

\* Faulty variant of SendOk: the sent message is not counted.
SendOkUncounted(k) ==
    /\ k \in DOMAIN passes
    /\ passes[k].pc = "sending"
    /\ messages' = MarkSent(messages, passes[k].msgs[passes[k].i])
    /\ passes' = [passes EXCEPT ![k].pc = "delay"]
    /\ emitted' = Event(passes'[k])
    /\ UNCHANGED deletions
    /\ resolved' = NoResult
    /\ UNCHANGED <<contacts, campaigns, lastCampaignId, lastMessageId,
                   isClientReady, now, creations, ticks, lastTickId,
                   attempted, handed>>

\* The channel accepted the message: it is marked sent, counted and
\* announced, and the pass sleeps.
SendOk(k) ==
    /\ k \in DOMAIN passes
    /\ passes[k].pc = "sending"
    /\ messages' = MarkSent(messages, passes[k].msgs[passes[k].i])
    /\ passes' = [passes EXCEPT ![k].pc = "delay", ![k].sent = @ + 1]
    /\ emitted' = Event(passes'[k])
    /\ UNCHANGED deletions
    /\ resolved' = NoResult
    /\ UNCHANGED <<contacts, campaigns, lastCampaignId, lastMessageId,
                   isClientReady, now, creations, ticks, lastTickId,
                   attempted, handed>>

\* The channel accepted the message and the UPDATE that marks it sent fails.
\* db.run is called without a callback, so the loop does not learn of it: the
\* message is counted and announced like any other and the pass sleeps.  The
\* error is raised as an event nobody listens to: it is either dropped, or
\* (dies) it ends the process, which is started again with no pass, no tick
\* and the channel not ready.
SendOkLost(k, dies) ==
    /\ k \in DOMAIN passes
    /\ passes[k].pc = "sending"
    /\ emitted' = Event([passes[k] EXCEPT !.sent = @ + 1])
    /\ IF dies
       THEN /\ passes' = <<>>
            /\ ticks' = <<>>
            /\ isClientReady' = FALSE
            /\ deletions' = {}
       ELSE /\ passes' = [passes EXCEPT ![k].pc = "delay", ![k].sent = @ + 1]
            /\ UNCHANGED <<ticks, isClientReady, deletions>>
    /\ resolved' = NoResult
    /\ UNCHANGED <<storeVars, now, creations, lastTickId, attempted, handed>>

\* Faulty variant of SendFail: the rejected message is marked failed and the
\* pass ends there, with the campaign completed.
SendFailAborts(k) ==
    /\ k \in DOMAIN passes
    /\ passes[k].pc = "sending"
    /\ LET seen == NoteFailure(passes)
           p == [seen[k] EXCEPT !.failed = @ + 1, !.pc = "done"]
       IN Continue(k, seen,
             [campaigns |-> SetStatus(campaigns, p.campaign, "completed"),
              messages  |-> MarkFailed(messages, passes[k].msgs[passes[k].i], SendError),
              pass      |-> p])
    /\ UNCHANGED <<contacts, lastCampaignId, lastMessageId, isClientReady, now,
                   creations, lastTickId, attempted>>

\* The channel rejected the message: the catch block marks it failed and the
\* loop goes on with the next message without sleeping.
SendFail(k) ==
    /\ k \in DOMAIN passes
    /\ passes[k].pc = "sending"
    /\ LET seen == NoteFailure(passes)
           p == [seen[k] EXCEPT !.i = @ + 1, !.failed = @ + 1]
       IN Continue(k, seen,
             RunLoop(campaigns,
                     MarkFailed(messages, passes[k].msgs[passes[k].i], SendError),
                     p, isClientReady))
    /\ UNCHANGED <<contacts, lastCampaignId, lastMessageId, isClientReady, now,
                   creations, lastTickId, attempted>>

\* The delay after a successful send has elapsed.
DelayDone(k) ==
    /\ k \in DOMAIN passes
    /\ passes[k].pc = "delay"
    /\ Continue(k, passes,
          RunLoop(campaigns, messages, [passes[k] EXCEPT !.i = @ + 1], isClientReady))
    /\ UNCHANGED <<contacts, lastCampaignId, lastMessageId, isClientReady, now,
                   creations, lastTickId, attempted>>

\* --------------------------------------------------------- specifications
TypeOK ==
    /\ contacts \subseteq ContactIds
    /\ isClientReady \in BOOLEAN
    /\ now \in 0..MaxTime
    /\ \A c \in DOMAIN campaigns :
          campaigns[c].status \in {"draft", "scheduled", "running", "paused", "completed"}
    /\ \A m \in DOMAIN messages : messages[m].status \in {"pending", "sent", "failed"}
    /\ \A k \in DOMAIN passes :
          passes[k].pc \in {"fetch", "lookup", "sending", "delay"}

\* A store as finished campaign creations leave it: campaign c owns n[c]
\* pending messages, for contacts 1..n[c], inserted campaign after campaign.
RECURSIVE MessagesBefore(_, _)
MessagesBefore(n, c) == IF c = 1 THEN 0 ELSE MessagesBefore(n, c - 1) + n[c - 1]

PopulatedMessages(n) ==
    [m \in 1..MessagesBefore(n, Len(n) + 1) |->
        LET c == CHOOSE d \in 1..Len(n) :
                    MessagesBefore(n, d) < m /\ m <= MessagesBefore(n, d) + n[d]
        IN [campaign_id |-> c, contact_id |-> m - MessagesBefore(n, c),
            phone |-> PhoneOf(m - MessagesBefore(n, c)),
            message |-> Personalize(<<"Hi">>, PlainRow),
            status |-> "pending", error |-> NoError]]

\* The server after the creation of Len(n) campaigns with statuses st and
\* n[c] messages each, before any of them was started.
Populated(st, n) ==
    /\ contacts = ContactIds
    /\ campaigns = [c \in 1..Len(n) |->
                      [status |-> st[c],
                       scheduled_at |-> IF st[c] = "scheduled" THEN MaxTime ELSE NULL]]
    /\ messages = PopulatedMessages(n)
    /\ lastMessageId = MessagesBefore(n, Len(n) + 1)
    /\ lastCampaignId = Len(n)
    /\ handed = [c \in 1..Len(n) |-> [manual |-> 0, sched |-> 0]]
    /\ attempted = {}
    /\ isClientReady = FALSE
    /\ now = 0
    /\ creations = <<>>
    /\ passes = <<>>
    /\ ticks = <<>>
    /\ lastTickId = 0
    /\ resolved = NoResult
    /\ emitted = NoEvent
    /\ deletions = {}

\* One campaign, draft or scheduled, with MaxMsgs messages.  A tick finds at
\* most this campaign due, so no tick has a second campaign to go on with.
\* The statements of the store succeed here; SpecRetry and SpecCreate have
\* the failing ones.
Init == \E st \in {"draft", "scheduled"} : Populated(<<st>>, <<MaxMsgs>>)

Next ==
    \/ ClientReady
    \/ ClientDisconnected
    \/ AdvanceTime
    \/ \E c \in 1..MaxCampaigns : Start(c)
    \/ \E c \in 1..MaxCampaigns : Pause(c)
    \/ \E k \in PassIds : Fetch(k)
    \/ \E k \in PassIds : Lookup(k)
    \/ \E k \in PassIds : SendOk(k)
    \/ \E k \in PassIds : SendFail(k)
    \/ \E k \in PassIds : DelayDone(k)
    \/ Tick

Spec == Init /\ [][Next]_vars

\* MaxCampaigns scheduled campaigns with one message each, a channel that
\* accepts every message, and no pause request.
InitSched ==
    Populated([c \in 1..MaxCampaigns |-> "scheduled"], [c \in 1..MaxCampaigns |-> 1])

NextSched ==
    \/ ClientReady
    \/ AdvanceTime
    \/ \E c \in 1..MaxCampaigns : Start(c)
    \/ \E k \in PassIds : Fetch(k)
    \/ \E k \in PassIds : Lookup(k)
    \/ \E k \in PassIds : SendOk(k)
    \/ \E k \in PassIds : DelayDone(k)
    \/ Tick

SpecSched == InitSched /\ [][NextSched]_vars

\* MaxCampaigns scheduled campaigns with one message each and a channel that
\* accepts every message, with start and pause requests and ticks.
NextIdle ==
    \/ ClientReady
    \/ AdvanceTime
    \/ \E c \in 1..MaxCampaigns : Start(c)
    \/ \E c \in 1..MaxCampaigns : Pause(c)
    \/ \E k \in PassIds : Fetch(k)
    \/ \E k \in PassIds : Lookup(k)
    \/ \E k \in PassIds : SendOk(k)
    \/ \E k \in PassIds : DelayDone(k)
    \/ Tick

SpecIdle == InitSched /\ [][NextIdle]_vars

\* MaxCampaigns scheduled campaigns with one message each, dispatched by the
\* scheduler alone, and a store whose pending-message query may fail.
NextRetry ==
    \/ ClientReady
    \/ AdvanceTime
    \/ \E k \in PassIds : Fetch(k)
    \/ \E k \in PassIds : FetchFails(k)
    \/ \E k \in PassIds : Lookup(k)
    \/ \E k \in PassIds : SendOk(k)
    \/ \E k \in PassIds : DelayDone(k)
    \/ Tick

SpecRetry == InitSched /\ [][NextRetry]_vars

\* One draft campaign with MaxMsgs messages, a channel that accepts every
\* message, and a store in which the write of a message's outcome may fail.
InitStore == Populated(<<"draft">>, <<MaxMsgs>>)

NextStore ==
    \/ ClientReady
    \/ \E c \in 1..MaxCampaigns : Start(c)
    \/ \E k \in PassIds : Fetch(k)
    \/ \E k \in PassIds : Lookup(k)
    \/ \E k \in PassIds : SendOk(k)
    \/ \E k \in PassIds, dies \in BOOLEAN : SendOkLost(k, dies)
    \/ \E k \in PassIds : DelayDone(k)

SpecStore == InitStore /\ [][NextStore]_vars

\* One draft campaign with MaxMsgs messages, whose contacts are deleted while
\* it is started and dispatched.
InitContacts == Populated(<<"draft">>, <<MaxMsgs>>)

NextContacts ==
    \/ \E k \in ContactIds : DeleteContact(k)
    \/ ClientReady
    \/ \E c \in 1..MaxCampaigns : Start(c)
    \/ \E k \in PassIds : Fetch(k)
    \/ \E k \in PassIds : Lookup(k)
    \/ \E k \in PassIds : SendOk(k)
    \/ \E k \in PassIds : SendFail(k)
    \/ \E k \in PassIds : DelayDone(k)

SpecContacts == InitContacts /\ [][NextContacts]_vars

\* The server with an empty store, receiving creation requests.
InitCreate ==
    /\ contacts = ContactIds
    /\ campaigns = <<>>
    /\ messages = <<>>
    /\ attempted = {}
    /\ handed = <<>>
    /\ lastCampaignId = 0
    /\ lastMessageId = 0
    /\ isClientReady = FALSE
    /\ now = 0
    /\ creations = <<>>
    /\ passes = <<>>
    /\ ticks = <<>>
    /\ lastTickId = 0
    /\ resolved = NoResult
    /\ emitted = NoEvent
    /\ deletions = {}

NextCreate ==
    \/ \E k \in ContactIds : DeleteContact(k)
    \/ \E ids \in SeqsUpTo(ContactIds, MaxIds), sched \in {NULL, MaxTime} :
          CreateCampaign(ids, sched, <<"Hi">>)
    \/ \E k \in 1..MaxCampaigns : CreateLookup(k, [c \in ContactIds |-> PlainRow])
    \/ \E k \in 1..MaxCampaigns : CreateLookupFails(k)
    \/ \E k \in 1..MaxCampaigns : CreateInsert(k)
    \/ \E k \in 1..MaxCampaigns : CreateInsertFails(k)

SpecCreate == InitCreate /\ [][NextCreate]_vars

\* The server when all campaigns but the last were created, with no
\* messages, and one contact is left: one creation request for that contact,
\* with any template, meets any field values in the contact's row.
InitBody ==
    /\ contacts = {1}
    /\ campaigns = [c \in 1..(MaxCampaigns - 1) |->
                      [status |-> "draft", scheduled_at |-> NULL]]
    /\ messages = <<>>
    /\ attempted = {}
    /\ handed = [c \in 1..(MaxCampaigns - 1) |-> [manual |-> 0, sched |-> 0]]
    /\ lastCampaignId = MaxCampaigns - 1
    /\ lastMessageId = 0
    /\ isClientReady = FALSE
    /\ now = 0
    /\ creations = <<>>
    /\ passes = <<>>
    /\ ticks = <<>>
    /\ lastTickId = 0
    /\ resolved = NoResult
    /\ emitted = NoEvent
    /\ deletions = {}

\* The same store with all contacts, and the server receiving one creation
\* request while start requests, ticks and dispatch passes go on; the channel
\* accepts every message.
InitLive ==
    /\ contacts = ContactIds
    /\ campaigns = [c \in 1..(MaxCampaigns - 1) |->
                      [status |-> "draft", scheduled_at |-> NULL]]
    /\ messages = <<>>
    /\ attempted = {}
    /\ handed = [c \in 1..(MaxCampaigns - 1) |-> [manual |-> 0, sched |-> 0]]
    /\ lastCampaignId = MaxCampaigns - 1
    /\ lastMessageId = 0
    /\ isClientReady = FALSE
    /\ now = 0
    /\ creations = <<>>
    /\ passes = <<>>
    /\ ticks = <<>>
    /\ lastTickId = 0
    /\ resolved = NoResult
    /\ emitted = NoEvent
    /\ deletions = {}

NextLive ==
    \/ \E ids \in SeqsUpTo(ContactIds, MaxIds), sched \in {NULL, MaxTime} :
          CreateCampaign(ids, sched, <<"Hi">>)
    \/ CreateLookup(1, [c \in ContactIds |-> PlainRow])
    \/ CreateInsert(1)
    \/ ClientReady
    \/ AdvanceTime
    \/ \E c \in 1..MaxCampaigns : Start(c)
    \/ Tick
    \/ \E k \in PassIds : Fetch(k)
    \/ \E k \in PassIds : Lookup(k)
    \/ \E k \in PassIds : SendOk(k)
    \/ \E k \in PassIds : DelayDone(k)

SpecLive == InitLive /\ [][NextLive]_vars

\* One draft campaign with MaxMsgs messages and the server receiving one
\* creation request for contact 1, start requests and deletion requests while
\* dispatch passes go on; the channel accepts every message.
InitDelete == Populated(<<"draft">>, <<MaxMsgs>>)

NextDelete ==
    \/ CreateCampaign(<<1>>, NULL, <<"Hi">>)
    \/ CreateLookup(1, [c \in ContactIds |-> PlainRow])
    \/ CreateInsert(1)
    \/ ClientReady
    \/ \E c \in 1..MaxCampaigns : Start(c)
    \/ \E c \in 1..MaxCampaigns : DeleteCampaign(c)
    \/ \E c \in 1..MaxCampaigns : DeleteCampaignFails(c)
    \/ \E c \in 1..MaxCampaigns : DeleteCampaignRow(c)
    \/ \E c \in 1..MaxCampaigns : DeleteCampaignRowFails(c)
    \/ \E k \in PassIds : Fetch(k)
    \/ \E k \in PassIds : Lookup(k)
    \/ \E k \in PassIds : LookupMissing(k)
    \/ \E k \in PassIds : SendOk(k)
    \/ \E k \in PassIds : DelayDone(k)

SpecDelete == InitDelete /\ [][NextDelete]_vars

NextBody ==
    \/ \E message \in Templates : CreateCampaign(<<1>>, NULL, message)
    \/ \E row \in Rows : CreateLookup(1, [c \in ContactIds |-> row])
    \/ CreateInsert(1)

SpecBody == InitBody /\ [][NextBody]_vars

\* ================================================================ claims
\* Pass k hands a message to the channel in this step.
IssuesSend(k) ==
    /\ k \in DOMAIN passes
    /\ passes[k].pc = "lookup"
    /\ k \in DOMAIN passes'
    /\ passes'[k].pc = "sending"

\* The message whose attempt pass k has in hand.
Current(k) == passes[k].msgs[passes[k].i]

\* C1: in every reachable state at most one dispatch pass is active for a
\* campaign.
C1_OnePassPerCampaign ==
    \A j, k \in DOMAIN passes : j # k => passes[j].campaign # passes[k].campaign

\* C2: of a manual start and a scheduler tick that both found the same
\* campaign in status scheduled, only one invokes the dispatcher.
C2_OneClaimant ==
    \A c \in DOMAIN handed : ~(handed[c].manual >= 1 /\ handed[c].sched >= 1)

\* C3: the scheduler hands a campaign to the dispatcher at most once, over
\* all its ticks.
C3_ScheduledOnce ==
    \A c \in DOMAIN handed : handed[c].sched <= 1

\* C4: a message that is sent or failed keeps that status in every later
\* state.
C4_TerminalStatusKept ==
    [][\A m \in DOMAIN messages :
          messages[m].status # "pending" /\ m \in DOMAIN messages'
             => messages'[m].status = messages[m].status]_vars

\* C5: a message is handed to the channel at most once: no pass issues a
\* send for a message that was handed to the channel before.
C5_SentAtMostOnce ==
    [][\A k \in DOMAIN passes : IssuesSend(k) => Current(k) \notin attempted]_vars

\* C6: while a campaign is paused, no pass hands one of its messages to the
\* channel, its pending messages stay pending unless their send was already
\* in flight, and its status does not become completed.
C6_PauseStopsPass ==
    [][\A c \in DOMAIN campaigns :
          campaigns[c].status = "paused" =>
             /\ \A k \in DOMAIN passes : passes[k].campaign = c => ~IssuesSend(k)
             /\ \A m \in MessagesOf(messages, c) :
                   /\ messages[m].status = "pending"
                   /\ ~\E k \in DOMAIN passes :
                          passes[k].pc = "sending" /\ Current(k) = m
                   => messages'[m].status = "pending"
             /\ campaigns'[c].status # "completed"]_vars

\* C7: a finished creation with N selected contact ids has left exactly N
\* messages, one per selected id, all pending.
C7_OneMessagePerId ==
    \A k \in 1..Len(creations) :
        creations[k].pc = "done" =>
           LET own == MessagesOf(messages, creations[k].campaign)
           IN /\ Cardinality(own) = Len(creations[k].ids)
              /\ \A j \in 1..Len(creations[k].ids) :
                    \E m \in own : messages[m].contact_id = creations[k].ids[j]
              /\ \A m \in own : messages[m].status = "pending"

\* C8: start, pause, ticks and dispatch passes leave the set of message ids
\* and the campaign and contact of every message as they are.
C8_MembershipFixed ==
    [][/\ DOMAIN messages' = DOMAIN messages
       /\ \A m \in DOMAIN messages :
             /\ messages'[m].campaign_id = messages[m].campaign_id
             /\ messages'[m].contact_id = messages[m].contact_id]_vars

\* A pass has sent one message of the campaign and failed another, and the
\* campaign was paused meanwhile.
C8_Witness ==
    /\ \E m \in DOMAIN messages : messages[m].status = "sent"
    /\ \E m \in DOMAIN messages : messages[m].status = "failed"
    /\ campaigns[1].status = "paused"

\* C9: a pass of an existing campaign that ends having seen the channel ready
\* all along and no send rejected leaves the campaign completed and every
\* message it fetched sent, and returns sent = total, failed = 0.
C9_AllSent ==
    resolved.run = "ok" /\ resolved.campaign \in DOMAIN campaigns =>
       /\ campaigns[resolved.campaign].status = "completed"
       /\ \A j \in 1..Len(resolved.msgs) : messages[resolved.msgs[j]].status = "sent"
       /\ resolved.sent = resolved.total
       /\ resolved.failed = 0

\* Such a pass has ended with MaxMsgs messages.
C9_Witness ==
    /\ resolved.run = "ok"
    /\ resolved.campaign \in DOMAIN campaigns
    /\ resolved.total = MaxMsgs

\* C10: a pass of an existing campaign that ends having seen the channel not
\* ready all along leaves the campaign completed and every message it fetched
\* failed with the not-ready error, has issued no send, and returns
\* failed = total, sent = 0.
C10_AllFailed ==
    resolved.run = "down" /\ resolved.campaign \in DOMAIN campaigns =>
       /\ campaigns[resolved.campaign].status = "completed"
       /\ \A j \in 1..Len(resolved.msgs) :
             /\ messages[resolved.msgs[j]].status = "failed"
             /\ messages[resolved.msgs[j]].error = NotReadyError
       /\ resolved.issued = 0
       /\ resolved.failed = resolved.total
       /\ resolved.sent = 0

\* Such a pass has ended with MaxMsgs messages.
C10_Witness ==
    /\ resolved.run = "down"
    /\ resolved.campaign \in DOMAIN campaigns
    /\ resolved.total = MaxMsgs

\* A call of sendBulkMessages for campaign c is made in this step: pass k is
\* new and waits for its pending-message query.
NewPassFor(k, c) ==
    /\ k \in DOMAIN passes'
    /\ passes'[k].campaign = c
    /\ passes'[k].pc = "fetch"
    /\ k \in DOMAIN passes => passes[k].campaign # c \/ passes[k].pc # "fetch"

\* C11: while a campaign is running or completed, no step starts a dispatch
\* pass for it, and no step that follows a start request changes its status:
\* a completed campaign does not become running again.
C11_StartRejected ==
    [][\A c \in DOMAIN campaigns :
          campaigns[c].status \in {"running", "completed"} =>
             /\ ~\E k \in PassIds : NewPassFor(k, c)
             /\ campaigns[c].status = "completed"
                   => campaigns'[c].status # "running"]_vars

\* C12: no dispatch pass is ever active for a campaign id that has no row: a
\* start request naming such an id starts none.
C12_NoPassWithoutCampaign ==
    \A k \in DOMAIN passes : passes[k].campaign \in DOMAIN campaigns

\* C15: a pass handles the messages of its list one after the other, none
\* skipped, whether the ones before were sent or failed, and when it ends
\* every message of the list was attempted: its counts add up to the total,
\* no message of the list is pending, and the campaign is completed.
C15_FailureDoesNotEndPass ==
    /\ \A k \in DOMAIN passes :
          /\ passes[k].pc \in {"lookup", "sending"}
                => passes[k].sent + passes[k].failed = passes[k].i - 1
          /\ passes[k].pc = "delay"
                => passes[k].sent + passes[k].failed = passes[k].i
    /\ resolved.run \in {"ok", "down", "mixed"}
          /\ resolved.campaign \in DOMAIN campaigns =>
          /\ resolved.sent + resolved.failed = resolved.total
          /\ \A j \in 1..resolved.total : messages[resolved.msgs[j]].status # "pending"
          /\ campaigns[resolved.campaign].status = "completed"

\* A pass has ended whose first message was rejected by the channel and
\* whose last message was sent after that.
C15_Witness ==
    /\ resolved.total = MaxMsgs
    /\ resolved.failed >= 1
    /\ resolved.sent >= 1
    /\ messages[resolved.msgs[1]].status = "failed"
    /\ messages[resolved.msgs[1]].error = SendError
    /\ messages[resolved.msgs[resolved.total]].status = "sent"

\* C13: a creation request with an empty contact id list leaves no campaign
\* row and no message row.
C13_EmptyListRejected ==
    \A k \in 1..Len(creations) :
        creations[k].ids = <<>> =>
           /\ creations[k].campaign \notin DOMAIN campaigns
           /\ MessagesOf(messages, creations[k].campaign) = {}

\* C14: of a finished creation in which the contact query or an insert
\* failed, neither the campaign row nor a message row is left; of any other
\* finished creation the campaign row and one message row per contact row
\* are there.
C14_AllOrNothing ==
    \A k \in 1..Len(creations) :
        creations[k].pc = "done" =>
           IF creations[k].err
           THEN /\ creations[k].campaign \notin DOMAIN campaigns
                /\ MessagesOf(messages, creations[k].campaign) = {}
           ELSE /\ creations[k].campaign \in DOMAIN campaigns
                /\ Cardinality(MessagesOf(messages, creations[k].campaign))
                      = Len(creations[k].rows)

\* The template with every placeholder occurrence replaced by the text of the
\* row's field, the empty text for an absent field, and nothing else changed.
RECURSIVE Literal(_, _)
Literal(text, row) ==
    IF text = <<>> THEN <<>>
    ELSE (IF \E f \in Fields : Head(text) = Placeholder(f)
          THEN row[CHOOSE f \in Fields : Head(text) = Placeholder(f)]
          ELSE <<Head(text)>>)
         \o Literal(Tail(text), row)

\* The populated fields of the row hold plain text only.
PlainFields(row) ==
    \A f \in Fields : \A j \in 1..Len(row[f]) :
        row[f][j] \notin Placeholders \cup {MatchedText}

\* Message m was made by creation k from contact row j of that creation.
MadeFrom(m, k, j) ==
    /\ creations[k].pc = "done"
    /\ m \in MessagesOf(messages, creations[k].campaign)
    /\ creations[k].rows[j].id = messages[m].contact_id

\* C16: the body of a message made for a contact with every field populated
\* is the template with each placeholder occurrence replaced by that
\* contact's field value, whatever text the template and the fields hold.
C16_PlaceholdersReplaced ==
    \A k \in 1..Len(creations) : \A j \in 1..Len(creations[k].rows) :
        \A m \in DOMAIN messages :
            MadeFrom(m, k, j) /\ creations[k].rows[j].absent = {} =>
               messages[m].message = Literal(creations[k].message, creations[k].rows[j])

\* C17: the body of a message made for a contact that lacks a field, and
\* whose other fields hold plain text, is the template with every occurrence
\* of the absent field's placeholder replaced by the empty text.
C17_AbsentFieldEmpty ==
    \A k \in 1..Len(creations) : \A j \in 1..Len(creations[k].rows) :
        \A m \in DOMAIN messages :
            /\ MadeFrom(m, k, j)
            /\ creations[k].rows[j].absent # {}
            /\ PlainFields(creations[k].rows[j])
            => messages[m].message = Literal(creations[k].message, creations[k].rows[j])

\* C18: a pass whose readiness check failed at some message is not active
\* afterwards, so it issues no further send whatever the channel does later;
\* it ended in that same step, and that message and all later messages of
\* its list are failed with the not-ready error.
C18_NotReadyFailsTheRest ==
    /\ \A k \in DOMAIN passes : passes[k].downAt = 0
    /\ resolved.downAt > 0 =>
          \A j \in resolved.downAt..resolved.total :
              /\ messages[resolved.msgs[j]].status = "failed"
              /\ messages[resolved.msgs[j]].error = NotReadyError

\* A pass has ended that sent a message and then found the channel not
\* ready at a later one.
C18_Witness ==
    /\ resolved.downAt > 1
    /\ resolved.sent >= 1
    /\ resolved.total = MaxMsgs

\* C19: a pass moves on to its next message only from its delay: no step
\* takes an active pass from one message of its list to a later one unless
\* the pass was sleeping.
C19_DelayBetweenAttempts ==
    [][\A k \in DOMAIN passes :
          /\ k \in DOMAIN passes'
          /\ passes'[k].campaign = passes[k].campaign
          /\ passes'[k].i > passes[k].i
          => passes[k].pc = "delay"]_vars

\* C20: when the pending-message query of a pass that the scheduler started
\* fails, the campaign is scheduled afterwards, and no campaign is running
\* without an active pass.
C20_MissedStaysScheduled ==
    /\ resolved.run = "rejected" /\ resolved.campaign \in DOMAIN campaigns
          => campaigns[resolved.campaign].status = "scheduled"
    /\ \A c \in DOMAIN campaigns :
          campaigns[c].status = "running"
             => \E k \in DOMAIN passes : passes[k].campaign = c

\* The promise of a pass is resolved in this state, with a result.
NormalResult == resolved.run \in {"ok", "down", "mixed"}

\* C21: a pass counts and announces a message as sent only when the store
\* holds it as sent; a pass that returns a result leaves none of its messages
\* pending; and no campaign is completed while one of its messages is
\* pending - also when the write of an outcome fails.
C21_LostWriteEndsPass ==
    /\ emitted # NoEvent => messages[emitted.messageId].status = "sent"
    /\ NormalResult =>
          \A j \in 1..resolved.total : messages[resolved.msgs[j]].status # "pending"
    /\ \A c \in DOMAIN campaigns :
          campaigns[c].status = "completed"
             => \A m \in MessagesOf(messages, c) : messages[m].status # "pending"

\* C22: in every state a campaign whose status is completed has no message
\* in status pending.
C22_CompletedHasNoPending ==
    \A c \in DOMAIN campaigns :
        campaigns[c].status = "completed"
           => \A m \in MessagesOf(messages, c) : messages[m].status # "pending"

\* The creation of campaign c is in progress: its row is inserted and its
\* last message is not.
BeingCreated(c) ==
    \E k \in 1..Len(creations) : creations[k].campaign = c /\ creations[k].pc # "done"

\* C30: no pass receives the pending messages of a campaign whose creation
\* is in progress, and no such campaign is completed.
C30_NoFetchDuringCreation ==
    [][\A k \in DOMAIN passes :
          passes[k].pc = "fetch" /\ BeingCreated(passes[k].campaign)
             => /\ k \in DOMAIN passes'
                /\ passes'[k].pc = "fetch"
                /\ campaigns'[passes[k].campaign].status # "completed"]_vars

\* C24: a campaign is created scheduled when it has a scheduled timestamp
\* and draft when it has none, and no pass hands a message of a campaign to
\* the channel while the campaign is draft or scheduled, that is, before a
\* start request or a tick has set it running.
C24_NothingSentBeforeStart ==
    [][/\ \A c \in DOMAIN campaigns' \ DOMAIN campaigns :
             campaigns'[c].status = IF campaigns'[c].scheduled_at # NULL
                                    THEN "scheduled" ELSE "draft"
       /\ \A k \in DOMAIN passes :
             IssuesSend(k) /\ passes[k].campaign \in DOMAIN campaigns
                => campaigns[passes[k].campaign].status \notin {"draft", "scheduled"}]_vars

\* The status changes of the campaign state machine.
Transitions ==
    {<<"draft", "running">>, <<"draft", "scheduled">>, <<"scheduled", "running">>,
     <<"paused", "running">>, <<"running", "paused">>, <<"running", "completed">>}

\* C23: every step that changes the status of a campaign changes it along
\* one of the transitions of the state machine.
C23_OnlyDefinedTransitions ==
    [][\A c \in DOMAIN campaigns :
          c \in DOMAIN campaigns' /\ campaigns'[c].status # campaigns[c].status
             => <<campaigns[c].status, campaigns'[c].status>> \in Transitions]_vars

\* C25: when the scheduler hands a campaign to the dispatcher, the campaign
\* is scheduled and its scheduled time is not later than the current time:
\* it is not draft, paused, running or completed, and not early.
C25_SchedulerStartsDueOnly ==
    [][\A c \in DOMAIN handed :
          handed'[c].sched > handed[c].sched
             => /\ campaigns[c].status = "scheduled"
                /\ campaigns[c].scheduled_at # NULL
                /\ campaigns[c].scheduled_at <= now]_vars

\* C26: whatever contacts are deleted, the messages of the campaign are the
\* ones created, each with the phone and the body it was created with; a
\* pass holds and announces a message with that phone; and a pass that
\* returns a result leaves no message of the campaign pending, those of
\* deleted contacts included.
C26_ContactDeletionKeepsMessages ==
    /\ DOMAIN messages = 1..lastMessageId
    /\ \A m \in DOMAIN messages :
          /\ messages[m].phone = PhoneOf(messages[m].contact_id)
          /\ messages[m].message = Personalize(<<"Hi">>, PlainRow)
    /\ \A k \in DOMAIN passes : \A j \in 1..Len(passes[k].msgs) :
          passes[k].phones[j] = messages[passes[k].msgs[j]].phone
    /\ emitted # NoEvent => emitted.phone = messages[emitted.messageId].phone
    /\ NormalResult /\ resolved.campaign \in DOMAIN campaigns =>
          \A m \in MessagesOf(messages, resolved.campaign) :
              messages[m].status # "pending"

\* No contact row is left, and the one active pass has just sent and announced
\* a message with the phone the message was created with.
C26_Witness ==
    /\ contacts = {}
    /\ emitted # NoEvent
    /\ emitted.phone = PhoneOf(messages[emitted.messageId].contact_id)
    /\ \A k \in DOMAIN passes : passes[k].sent + passes[k].failed = passes[k].i
    /\ Cardinality(DOMAIN passes) = 1

\* The send that pass k had issued succeeds in this step.
SendSucceeds(k) ==
    /\ k \in DOMAIN passes
    /\ passes[k].pc = "sending"
    /\ k \in DOMAIN passes'
    /\ passes'[k].pc = "delay"

\* C27: a progress event is published exactly in the steps in which a send
\* of a pass succeeds, for the message of that send, which the pass takes up
\* once; it carries the sent count of the pass, which it raises by one and
\* which no other step changes, and as total the number of messages the
\* pass fetched, which the sent count does not exceed.
C27_ProgressEvents ==
    [][/\ emitted' # NoEvent =>
             \E k \in DOMAIN passes :
                 /\ SendSucceeds(k)
                 /\ emitted'.campaignId = passes[k].campaign
                 /\ emitted'.messageId = Current(k)
                 /\ messages'[emitted'.messageId].status = "sent"
                 /\ emitted'.sent = passes[k].sent + 1
                 /\ passes'[k].sent = emitted'.sent
                 /\ emitted'.sent <= passes[k].i
                 /\ emitted'.total = Len(passes[k].msgs)
                 /\ emitted'.sent <= emitted'.total
       /\ \A k \in DOMAIN passes :
             /\ SendSucceeds(k) => emitted' # NoEvent
             /\ /\ k \in DOMAIN passes'
                /\ passes'[k].campaign = passes[k].campaign
                /\ passes'[k].sent # passes[k].sent
                => SendSucceeds(k)
             /\ k \in DOMAIN passes' /\ passes'[k].campaign = passes[k].campaign
                   /\ passes[k].pc \in {"sending", "delay"}
                   => passes'[k].i >= passes[k].i
             /\ k \in DOMAIN passes' /\ passes'[k].campaign = passes[k].campaign
                   /\ passes[k].pc = "delay" /\ passes'[k].pc # "delay"
                   => passes'[k].i > passes[k].i]_vars

\* The second event of a pass was published, with sent = 2.
C27_Witness ==
    /\ emitted # NoEvent
    /\ emitted.sent = 2
    /\ emitted.total = MaxMsgs

\* C29: the result of a pass has sent + failed = total, total is the number
\* of messages the pass fetched, and neither count is negative or larger
\* than the total.
C29_CountsAddUp ==
    NormalResult =>
       /\ resolved.sent + resolved.failed = resolved.total
       /\ resolved.total = Len(resolved.msgs)
       /\ resolved.sent \in 0..resolved.total
       /\ resolved.failed \in 0..resolved.total

\* A pass has returned a result with one message sent and one failed.
C29_Witness ==
    /\ NormalResult
    /\ resolved.sent = 1
    /\ resolved.failed = 1

\* C28: while a pass sleeps in its delay, a start request for any other
\* campaign, a pause request for any campaign and the next tick can take
\* their steps (as far as the bounds on passes and ticks leave room).
C28_DelaySuspendsOnlyThePass ==
    \A k \in DOMAIN passes :
        passes[k].pc = "delay" =>
           /\ \A c \in DOMAIN campaigns :
                 c # passes[k].campaign /\ ~PassesFull => ENABLED Start(c)
           /\ \A c \in DOMAIN campaigns : ENABLED Pause(c)
           /\ lastTickId < MaxTicks /\ ~PassesFull => ENABLED Tick

\* A pass sleeps while there is room for a start of another campaign and for
\* a tick that finds a campaign due.
C28_Witness ==
    /\ \E k \in DOMAIN passes : passes[k].pc = "delay"
    /\ ~PassesFull
    /\ lastTickId < MaxTicks
    /\ DueCampaigns(campaigns, now) # <<>>

\* Campaign c was created and its row is gone: ids are never given twice
\* (AUTOINCREMENT), so its row was deleted.
Deleted(c) == c \in 1..lastCampaignId /\ c \notin DOMAIN campaigns

\* C31: once the row of a campaign is deleted, no message of the campaign
\* exists in this or any later state, the row does not come back, and no
\* pass for the campaign hands a message to the channel.
C31_DeletedCampaignLeavesNothing ==
    [][\A c \in 1..MaxCampaigns :
          Deleted(c) =>
             /\ MessagesOf(messages, c) = {}
             /\ MessagesOf(messages', c) = {}
             /\ c \notin DOMAIN campaigns'
             /\ \A k \in DOMAIN passes :
                   passes[k].campaign = c => ~IssuesSend(k)]_vars

\* C31, for the passes alone: once the row of a campaign is deleted, no pass
\* for the campaign hands a message to the channel, and no statement of a
\* pass adds a message or a campaign row.
C31_PassOfDeletedSendsNothing ==
    [][\A k \in DOMAIN passes :
          /\ Deleted(passes[k].campaign) => ~IssuesSend(k)
          /\ (passes' # passes /\ creations' = creations)
                => /\ DOMAIN messages' \subseteq DOMAIN messages
                   /\ DOMAIN campaigns' \subseteq DOMAIN campaigns]_vars

====
